---- MODULE Spec2Model ----
(***************************************************************************)
(* A model of github.com/rickb777/period: ISO-8601 periods held as seven   *)
(* decimal fields plus an overall sign, with the parser, the formatter,    *)
(* the normaliser and the arithmetic.                                      *)
(*                                                                         *)
(* Text is a sequence of one-character strings.  A decimal is the record   *)
(* [neg, coef, scale] of decimal.Decimal: value = (-1)^neg * coef / 10^scale*)
(***************************************************************************)
EXTENDS Integers, Sequences, FiniteSets, TLC

\* ------------------------------------------------------------------------
\* Bounds of the model
\* ------------------------------------------------------------------------

\* the largest coefficient the modelled decimals hold (the library: 19 digits)
MaxCoef == 99999999

\* how many results may be fed back as the operand of a further operation
MaxDepth == 1

\* ------------------------------------------------------------------------
\* decimal.Decimal
\* ------------------------------------------------------------------------

Max(x, y) == IF x >= y THEN x ELSE y

AbsInt(x) == IF x < 0 THEN -x ELSE x

\* a zero coefficient is never negative
newSafe(neg, coef, scale) ==
    [neg |-> IF coef = 0 THEN FALSE ELSE neg, coef |-> coef, scale |-> scale]

DecZero == [neg |-> FALSE, coef |-> 0, scale |-> 0]

DecNew(v, scale) == newSafe(v < 0, AbsInt(v), scale)

DecOne == DecNew(1, 0)

DecSign(d) == IF d.coef = 0 THEN 0 ELSE IF d.neg THEN -1 ELSE 1

DecIsZero(d) == d.coef = 0

DecNeg(d) == newSafe(~d.neg, d.coef, d.scale)

RECURSIVE NumDigits(_)
NumDigits(n) == IF n = 0 THEN 0 ELSE 1 + NumDigits(n \div 10)

\* the number of digits in the coefficient; zero has none
DecPrec(d) == NumDigits(d.coef)

\* removes trailing zeros of the fraction, keeping at least `scale` digits
RECURSIVE DecTrim(_, _)
DecTrim(d, scale) ==
    IF d.scale <= scale \/ d.coef % 10 # 0 THEN d
    ELSE DecTrim([d EXCEPT !.coef = d.coef \div 10, !.scale = d.scale - 1], scale)

\* c * 10^k, or some number above MaxCoef when that is above MaxCoef
RECURSIVE Lsh(_, _)
Lsh(c, k) == IF k <= 0 \/ c > MaxCoef THEN c ELSE Lsh(c * 10, k - 1)

DecAddAt(d, e, scale, dc, ec) ==
    LET sum == (IF d.neg THEN -dc ELSE dc) + (IF e.neg THEN -ec ELSE ec)
    IN  IF dc > MaxCoef \/ ec > MaxCoef \/ AbsInt(sum) > MaxCoef
        THEN [ok |-> FALSE, val |-> DecZero]
        ELSE [ok |-> TRUE, val |-> DecNew(sum, scale)]

\* the sum at the larger of the two scales; an error when it is out of range
DecAdd(d, e) ==
    DecAddAt(d, e, Max(d.scale, e.scale),
             Lsh(d.coef, Max(d.scale, e.scale) - d.scale),
             Lsh(e.coef, Max(d.scale, e.scale) - e.scale))

\* the product, its scale the sum of the scales; an error when out of range
DecMul(d, e) ==
    IF d.coef # 0 /\ e.coef > MaxCoef \div d.coef
    THEN [ok |-> FALSE, val |-> DecZero]
    ELSE [ok |-> TRUE,
          val |-> newSafe(d.neg # e.neg, d.coef * e.coef, d.scale + e.scale)]

DecQuoRemAt(d, e, scale, dc, ec) ==
    IF e.coef = 0 \/ dc > MaxCoef
    THEN [ok |-> FALSE, q |-> DecZero, r |-> DecZero]
    ELSE [ok |-> TRUE,
          q  |-> newSafe(d.neg # e.neg, dc \div ec, 0),
          r  |-> newSafe(d.neg, dc % ec, scale)]

\* d = e*q + r with q an integer truncated towards zero and r signed as d;
\* r keeps the larger of the two scales
DecQuoRem(d, e) ==
    DecQuoRemAt(d, e, Max(d.scale, e.scale),
                Lsh(d.coef, Max(d.scale, e.scale) - d.scale),
                Lsh(e.coef, Max(d.scale, e.scale) - e.scale))

\* ------------------------------------------------------------------------
\* decimal text
\* ------------------------------------------------------------------------

Digits == <<"0", "1", "2", "3", "4", "5", "6", "7", "8", "9">>

IsDigit(c) == \E i \in 1..10 : Digits[i] = c

DigitVal(c) == (CHOOSE i \in 1..10 : Digits[i] = c) - 1

RECURSIVE NatChars(_)
NatChars(n) ==
    IF n < 10 THEN <<Digits[n + 1]>>
    ELSE NatChars(n \div 10) \o <<Digits[(n % 10) + 1]>>

RECURSIVE Zeros(_)
Zeros(n) == IF n <= 0 THEN <<>> ELSE <<"0">> \o Zeros(n - 1)

\* the digits, with zeros before them so that one digit precedes the point
Padded(ds, scale) == Zeros(scale + 1 - Len(ds)) \o ds

DecStringOf(d, padded) ==
    (IF d.neg THEN <<"-">> ELSE <<>>)
    \o SubSeq(padded, 1, Len(padded) - d.scale)
    \o (IF d.scale = 0 THEN <<>>
        ELSE <<".">> \o SubSeq(padded, Len(padded) - d.scale + 1, Len(padded)))

\* the digits with a decimal point placed `scale` digits from the right
DecString(d) == DecStringOf(d, Padded(NatChars(d.coef), d.scale))

\* the value of a run of digits, most significant first
RECURSIVE DigitsVal(_, _)
DigitsVal(s, acc) ==
    IF s = <<>> THEN acc
    ELSE IF acc > MaxCoef THEN acc
    ELSE DigitsVal(Tail(s), 10 * acc + DigitVal(Head(s)))

CountOf(s, c) == Cardinality({i \in 1..Len(s) : s[i] = c})

\* the place of the point in the text
DotAt(body) == CHOOSE i \in 1..Len(body) : body[i] = "."

DecParseOf(neg, body, dots, ds, coef) ==
    IF dots > 1 \/ ds = <<>> \/ Len(ds) + dots # Len(body) \/ coef > MaxCoef
    THEN [ok |-> FALSE, val |-> DecZero]
    ELSE [ok |-> TRUE,
          val |-> newSafe(neg, coef, IF dots = 0 THEN 0 ELSE Len(body) - DotAt(body))]

DecParseBody(neg, body) ==
    DecParseOf(neg, body, CountOf(body, "."), SelectSeq(body, IsDigit),
               DigitsVal(SelectSeq(body, IsDigit), 0))

\* an optional '-', digits, and at most one point among them
DecParse(s) ==
    IF s # <<>> /\ Head(s) = "-" THEN DecParseBody(TRUE, Tail(s))
    ELSE DecParseBody(FALSE, s)

\* ------------------------------------------------------------------------
\* Period
\* ------------------------------------------------------------------------

Year   == "years"
Month  == "months"
Week   == "weeks"
Day    == "days"
Hour   == "hours"
Minute == "minutes"
Second == "seconds"

\* the seven fields, most significant first
Fields == <<Year, Month, Week, Day, Hour, Minute, Second>>

FieldSet == {Fields[i] : i \in 1..7}

Period(y, mo, w, d, h, mi, s, neg) ==
    [years |-> y, months |-> mo, weeks |-> w, days |-> d,
     hours |-> h, minutes |-> mi, seconds |-> s, neg |-> neg]

\* the zero period: every field the zero decimal, neg false
Zero == Period(DecZero, DecZero, DecZero, DecZero, DecZero, DecZero, DecZero, FALSE)

Byte(des) ==
    CASE des = Year   -> "Y"
      [] des = Month  -> "M"
      [] des = Week   -> "W"
      [] des = Day    -> "D"
      [] des = Hour   -> "H"
      [] des = Minute -> "M"
      [] des = Second -> "S"

negateAllFields(period) ==
    [f \in DOMAIN period |-> IF f = "neg" THEN period.neg ELSE DecNeg(period[f])]

\* flipSign toggling neg without negating the fields
flipSignKeepsFields(period) == [period EXCEPT !.neg = ~period.neg]

flipSign(period) == negateAllFields([period EXCEPT !.neg = ~period.neg])

\* the sign of the first non-zero field decides; all zero gives Zero
RECURSIVE normaliseSignFrom(_, _)
normaliseSignFrom(period, i) ==
    IF i > 7 THEN Zero
    ELSE IF DecSign(period[Fields[i]]) > 0 THEN period
    ELSE IF DecSign(period[Fields[i]]) < 0 THEN flipSign(period)
    ELSE normaliseSignFrom(period, i + 1)

\* NormaliseSign leaving every period as it is
NormaliseSignKeeps(period) == period

NormaliseSign(period) == normaliseSignFrom(period, 1)

IsZero(period) == [period EXCEPT !.neg = FALSE] = Zero

Sign(period) == IF period.neg THEN -1 ELSE IF period # Zero THEN 1 ELSE 0

Abs(period) == [period EXCEPT !.neg = FALSE]

\* Negate leaving the sign as it is
NegateKeepsSign(period) == period

Negate(period) ==
    IF IsZero(period) THEN Zero ELSE [period EXCEPT !.neg = ~period.neg]

applySign(period, field) == IF period.neg THEN DecNeg(field) ELSE field

\* ------------------------------------------------------------------------
\* The formatter
\* ------------------------------------------------------------------------

writeField(field, fieldDesignator) ==
    IF field.coef # 0 THEN DecString(field) \o <<Byte(fieldDesignator)>> ELSE <<>>

\* WriteTo without the 'T' before the time fields
WriteToNoT(period) ==
    (IF period.neg THEN <<"-">> ELSE <<>>)
    \o <<"P">>
    \o writeField(period.years, Year)
    \o writeField(period.months, Month)
    \o writeField(period.weeks, Week)
    \o writeField(period.days, Day)
    \o writeField(period.hours, Hour)
    \o writeField(period.minutes, Minute)
    \o writeField(period.seconds, Second)

WriteTo(period) ==
    (IF period.neg THEN <<"-">> ELSE <<>>)
    \o <<"P">>
    \o writeField(period.years, Year)
    \o writeField(period.months, Month)
    \o writeField(period.weeks, Week)
    \o writeField(period.days, Day)
    \o (IF period.hours.coef = 0 /\ period.minutes.coef = 0 /\ period.seconds.coef = 0
        THEN <<>>
        ELSE <<"T">>
             \o writeField(period.hours, Hour)
             \o writeField(period.minutes, Minute)
             \o writeField(period.seconds, Second))

\* String writing the zero period field by field as well
StringWritesZero(period) == WriteTo(period)

String(period) == IF period = Zero THEN <<"P", "0", "D">> ELSE WriteTo(period)

\* ------------------------------------------------------------------------
\* The parser
\* ------------------------------------------------------------------------

Unready == 0
Armed   == 1
Set     == 2

noNumberFound      == -1
stringIsAllNumeric == -2

NoError == [kind |-> "none", text |-> <<>>, arg |-> <<>>]

\* an error: its kind, the input text its message quotes, the characters it names
Error(kind, text, arg) == [kind |-> kind, text |-> text, arg |-> arg]

\* the number's characters and the position (from 0) of the character after it
RECURSIVE scanDigitsFrom(_, _, _)
scanDigitsFrom(s, i, number) ==
    IF i > Len(s) THEN [number |-> <<>>, i |-> stringIsAllNumeric]
    ELSE IF i = 1 /\ s[i] = "-" THEN scanDigitsFrom(s, i + 1, number \o <<"-">>)
    ELSE IF s[i] = "." \/ s[i] = "," THEN scanDigitsFrom(s, i + 1, number \o <<".">>)
    ELSE IF IsDigit(s[i]) THEN scanDigitsFrom(s, i + 1, number \o <<s[i]>>)
    ELSE IF Len(number) > 0 THEN [number |-> number, i |-> i - 1]
    ELSE [number |-> <<>>, i |-> noNumberFound]

scanDigits(s) == scanDigitsFrom(s, 1, <<>>)

asDesignator(d, isHMS) ==
    CASE d = "S" -> [ok |-> TRUE, des |-> Second]
      [] d = "H" -> [ok |-> TRUE, des |-> Hour]
      [] d = "D" -> [ok |-> TRUE, des |-> Day]
      [] d = "W" -> [ok |-> TRUE, des |-> Week]
      [] d = "Y" -> [ok |-> TRUE, des |-> Year]
      [] d = "M" -> [ok |-> TRUE, des |-> IF isHMS THEN Minute ELSE Month]
      [] OTHER   -> [ok |-> FALSE, des |-> ""]

\* no field: the error alone
noField(e) == [err |-> e, dec |-> DecZero, des |-> "", rest |-> <<>>]

parseFieldOf(str, original, i, dec, des) ==
    IF ~dec.ok THEN noField(Error("panic", original, <<>>))
    ELSE IF ~des.ok
    THEN noField(Error("expected a designator", original, <<str[i + 1]>>))
    ELSE [err |-> NoError, dec |-> dec.val, des |-> des.des,
          rest |-> SubSeq(str, i + 2, Len(str))]

parseFieldAt(str, original, isHMS, sd) ==
    IF sd.i = noNumberFound
    THEN noField(Error("expected a number", original, <<str[1]>>))
    ELSE IF sd.i = stringIsAllNumeric
    THEN noField(Error("missing designator at the end", original, <<>>))
    ELSE parseFieldOf(str, original, sd.i, DecParse(sd.number),
                      asDesignator(str[sd.i + 1], isHMS))

\* the number and the designator at the start of str, and the rest of str
parseNextField(str, original, isHMS) ==
    parseFieldAt(str, original, isHMS, scanDigits(str))

testAndSetUnquoted(i, des, original) ==
    IF i = Unready
    THEN [state |-> i, err |-> Error("designator cannot occur here", <<>>, <<Byte(des)>>)]
    ELSE IF i = Set
    THEN [state |-> i, err |-> Error("designator cannot occur more than once", <<>>, <<Byte(des)>>)]
    ELSE [state |-> Set, err |-> NoError]

\* the state a designator must be in to take a value, and the state it is left in
testAndSet(i, des, original) ==
    IF i = Unready
    THEN [state |-> i, err |-> Error("designator cannot occur here", original, <<Byte(des)>>)]
    ELSE IF i = Set
    THEN [state |-> i, err |-> Error("designator cannot occur more than once", original, <<Byte(des)>>)]
    ELSE [state |-> Set, err |-> NoError]

\* the end of one turn of the loop: the designator is tested and set
parseFieldSet(st, isoPeriod, nf, ts) ==
    IF ts.err # NoError
    THEN [st EXCEPT !.err = ts.err, !.nComponents = st.nComponents + 1]
    ELSE [st EXCEPT
             !.remaining = nf.rest,
             !.p = [st.p EXCEPT ![nf.des] = nf.dec],
             !.state = [st.state EXCEPT ![nf.des] = ts.state],
             !.nComponents = st.nComponents + 1,
             !.haveFraction = st.haveFraction \/ nf.dec.scale > 0,
             !.previous = IF nf.dec.scale > 0 THEN nf.des ELSE st.previous]

\* a turn of the loop that lets any field follow a fraction
parseFieldAnyFraction(st, isoPeriod, nf) ==
    IF nf.err # NoError THEN [st EXCEPT !.err = nf.err]
    ELSE parseFieldSet(st, isoPeriod, nf, testAndSet(st.state[nf.des], nf.des, isoPeriod))

\* one turn of the loop on the field nf
parseField(st, isoPeriod, nf) ==
    IF nf.err # NoError THEN [st EXCEPT !.err = nf.err]
    ELSE IF st.haveFraction /\ nf.dec.coef # 0
    THEN [st EXCEPT !.err = Error("only the last field can have a fraction",
                                  isoPeriod, <<Byte(st.previous), Byte(nf.des)>>)]
    ELSE parseFieldSet(st, isoPeriod, nf, testAndSet(st.state[nf.des], nf.des, isoPeriod))

\* 'T' keeping the date designators as they are
crossTKeepsDates(st) ==
    [st EXCEPT
        !.isHMS = TRUE,
        !.state = [d \in FieldSet |->
                     IF d \in {Year, Month, Week, Day} THEN st.state[d] ELSE Armed],
        !.remaining = Tail(st.remaining)]

\* 'T': the date designators can no longer occur, the time designators can
crossT(st) ==
    [st EXCEPT
        !.isHMS = TRUE,
        !.state = [d \in FieldSet |->
                     IF d \in {Year, Month, Week, Day} THEN Unready ELSE Armed],
        !.remaining = Tail(st.remaining)]

\* one turn of the loop; st holds the locals of Parse
parseTurn(st, isoPeriod) ==
    IF st.remaining[1] = "T"
    THEN IF st.isHMS
         THEN [st EXCEPT !.err = Error("'T' designator cannot occur more than once", isoPeriod, <<>>)]
         ELSE crossT(st)
    ELSE parseField(st, isoPeriod, parseNextField(st.remaining, isoPeriod, st.isHMS))

\* the scan of what follows 'P', up to the end of the text or an error
RECURSIVE parseLoop(_, _)
parseLoop(st, isoPeriod) ==
    IF Len(st.remaining) = 0 \/ st.err # NoError THEN st
    ELSE parseLoop(parseTurn(st, isoPeriod), isoPeriod)

ZeroTexts ==
    {<<"P", "0", "Y">>, <<"P", "0", "M">>, <<"P", "0", "W">>, <<"P", "0", "D">>,
     <<"P", "T", "0", "H">>, <<"P", "T", "0", "M">>, <<"P", "T", "0", "S">>}

\* the locals of Parse before the loop
parseStart(remaining, p0) ==
    [remaining |-> Tail(remaining), p |-> p0,
     state |-> [d \in FieldSet |->
                  IF d \in {Year, Month, Week, Day} THEN Armed ELSE Unready],
     isHMS |-> FALSE, haveFraction |-> FALSE, previous |-> Year,
     nComponents |-> 0, err |-> NoError]

\* after the loop
parseEnd(isoPeriod, st) ==
    IF st.err # NoError THEN [err |-> st.err, p |-> st.p]
    ELSE IF st.nComponents = 0
    THEN [err |-> Error("expected 'Y', 'M', 'W', 'D', 'H', 'M', or 'S' designator",
                        isoPeriod, <<>>),
          p |-> st.p]
    ELSE [err |-> NoError, p |-> NormaliseSign(st.p)]

\* after the sign
parseSigned(isoPeriod, remaining, p0) ==
    IF remaining \in ZeroTexts THEN [err |-> NoError, p |-> Zero]
    ELSE IF remaining = <<>>
    THEN [err |-> Error("cannot parse a blank string as a period", <<>>, <<>>), p |-> p0]
    ELSE IF remaining[1] # "P"
    THEN [err |-> Error("expected 'P' period mark at the start", isoPeriod, <<>>),
          p |-> p0]
    ELSE parseEnd(isoPeriod, parseLoop(parseStart(remaining, p0), isoPeriod))

\* the body of the method Parse: the error it returns, and its local p
parseText(isoPeriod) ==
    IF isoPeriod = <<>>
    THEN [err |-> Error("cannot parse a blank string as a period", <<>>, <<>>), p |-> Zero]
    ELSE IF isoPeriod[1] = "-"
    THEN parseSigned(isoPeriod, Tail(isoPeriod), [Zero EXCEPT !.neg = TRUE])
    ELSE IF isoPeriod[1] = "+" THEN parseSigned(isoPeriod, Tail(isoPeriod), Zero)
    ELSE parseSigned(isoPeriod, isoPeriod, Zero)

\* the text after its sign
Unsigned(s) == IF s # <<>> /\ Head(s) \in {"-", "+"} THEN Tail(s) ELSE s

\* the local p before the loop
signed(isoPeriod) == IF Head(isoPeriod) = "-" THEN [Zero EXCEPT !.neg = TRUE] ELSE Zero

\* the text is not blank, not a zero text and starts with 'P': Parse goes
\* into its loop
reachesLoop(isoPeriod) ==
    /\ Unsigned(isoPeriod) # <<>>
    /\ Unsigned(isoPeriod) \notin ZeroTexts
    /\ Head(Unsigned(isoPeriod)) = "P"

\* the method Parse with p assigned to the receiver whatever the outcome
assignAlways(receiver, res) == [err |-> res.err, period |-> res.p]

ParseMethodAssignsAlways(receiver, isoPeriod) == assignAlways(receiver, parseText(isoPeriod))

\* the method Parse: *period = p only when there is no error
assignParsed(receiver, res) ==
    [err |-> res.err, period |-> IF res.err = NoError THEN res.p ELSE receiver]

ParseMethod(receiver, isoPeriod) == assignParsed(receiver, parseText(isoPeriod))

\* the function Parse: the method applied to a new Period
Parse(isoPeriod) == ParseMethod(Zero, isoPeriod)

\* ------------------------------------------------------------------------
\* The normaliser
\* ------------------------------------------------------------------------

seven      == DecNew(7, 0)
twelve     == DecNew(12, 0)
twentyFour == DecNew(24, 0)
sixty      == DecNew(60, 0)

\* an overflowing carry is dropped and the remainder kept
moveWholePartsDropping(larger, smaller, qr, l2) ==
    IF ~l2.ok THEN <<larger, qr.r>> ELSE <<l2.val, qr.r>>

moveWholePartsTo(larger, smaller, qr, l2) ==
    IF ~l2.ok THEN <<larger, smaller>> ELSE <<l2.val, qr.r>>

moveWholePartsOf(larger, smaller, qr) ==
    IF ~qr.ok THEN <<larger, smaller>>
    ELSE IF ~DecIsZero(qr.r) /\ DecPrec(qr.r) <= qr.r.scale THEN <<larger, smaller>>
    ELSE moveWholePartsTo(larger, smaller, qr, DecAdd(larger, qr.q))

\* carries the whole multiples of nd in smaller into larger, when the
\* remainder is no more complex than smaller was
moveWholePartsLeft(larger, smaller, nd) ==
    IF DecIsZero(smaller) THEN <<larger, smaller>>
    ELSE moveWholePartsOf(larger, smaller, DecQuoRem(smaller, nd))

setPairLarger(period, larger, smaller, m) ==
    [period EXCEPT ![larger] = m[1]]

setPair(period, larger, smaller, m) ==
    [period EXCEPT ![larger] = m[1], ![smaller] = m[2]]

\* one step of Normalise on the pair (larger, smaller) of fields
rippleLeft(period, larger, smaller, nd) ==
    setPair(period, larger, smaller,
            moveWholePartsLeft(period[larger], period[smaller], nd))

rippleDaysAlways(period, precise) == rippleLeft(period, Day, Hour, twentyFour)

\* hours ripple into days only when the result need not be precise
rippleDays(period, precise) ==
    IF ~precise THEN rippleLeft(period, Day, Hour, twentyFour) ELSE period

Normalise(period, precise) ==
    rippleLeft(
        rippleLeft(
            rippleDays(
                rippleLeft(rippleLeft(period, Minute, Second, sixty), Hour, Minute, sixty),
                precise),
            Week, Day, seven),
        Year, Month, twelve)

\* nothing in the smaller field and no fraction in the larger
isSimple(larger, smaller) == DecIsZero(smaller) /\ larger.scale = 0

\* the larger field is dropped and the smaller left as it was
moveToRightLosing(larger, smaller, sm2) ==
    IF ~sm2.ok THEN <<larger, smaller>> ELSE <<DecZero, smaller>>

moveToRightTo(larger, smaller, sm2) ==
    IF ~sm2.ok THEN <<larger, smaller>>
    ELSE IF DecPrec(DecTrim(sm2.val, 0)) > DecPrec(larger) + DecPrec(smaller)
    THEN <<larger, smaller>>
    ELSE <<DecZero, DecTrim(sm2.val, 0)>>

moveToRightOf(larger, smaller, m, extra) ==
    IF isSimple(m[1], m[2]) THEN m
    ELSE IF ~extra.ok THEN <<larger, smaller>>
    ELSE moveToRightTo(larger, smaller, DecAdd(smaller, extra.val))

\* folds larger into smaller, unless the pair is simple as it is or once the
\* whole parts have moved left, or the sum would need more digits
moveToRight(larger, smaller, nd) ==
    IF DecIsZero(larger) \/ isSimple(larger, smaller) THEN <<larger, smaller>>
    ELSE moveToRightOf(larger, smaller, moveWholePartsLeft(larger, smaller, nd),
                       DecMul(larger, nd))

\* one step of Simplify on the pair (larger, smaller) of fields
rippleRight(period, larger, smaller, nd) ==
    setPair(period, larger, smaller,
            moveToRight(period[larger], period[smaller], nd))

\* days fold into hours only when the result need not be precise
rippleDaysRight(period, precise) ==
    IF ~precise THEN rippleRight(period, Day, Hour, twentyFour) ELSE period

Simplify(period, precise) ==
    rippleRight(
        rippleRight(
            rippleDaysRight(
                rippleRight(rippleRight(period, Year, Month, twelve), Week, Day, seven),
                precise),
            Hour, Minute, sixty),
        Minute, Second, sixty)

\* ------------------------------------------------------------------------
\* The arithmetic
\* ------------------------------------------------------------------------

\* the fields in which the operation overflowed
Overflows(res) == {f \in FieldSet : ~res[f].ok}

FieldValues(res, neg) ==
    [f \in FieldSet \cup {"neg"} |-> IF f = "neg" THEN neg ELSE res[f].val]

\* the fields with the sign of the period applied to them
signedFields(period) == IF period.neg THEN flipSign(period) ELSE period

addFields(left, right) == [f \in FieldSet |-> DecAdd(left[f], right[f])]

\* the normalised sum and the errors of the additions
sumOf(sums) ==
    [period |-> NormaliseSign(Normalise(FieldValues(sums, FALSE), TRUE)),
     err    |-> Overflows(sums)]

\* Add taking the fields of other as stored, whatever its neg
AddIgnoresSign(period, other) == sumOf(addFields(signedFields(period), other))

\* the first of the fields, in the order of Fields
firstField(S) ==
    {Fields[i] : i \in {i \in 1..7 : Fields[i] \in S /\ \A j \in 1..(i - 1) : Fields[j] \notin S}}

\* Add reporting only the first of its overflows
AddFirstOverflow(period, other) ==
    [period |-> sumOf(addFields(signedFields(period), signedFields(other))).period,
     err    |-> firstField(Overflows(addFields(signedFields(period), signedFields(other))))]

Add(period, other) == sumOf(addFields(signedFields(period), signedFields(other)))

\* Subtract without the negation
SubtractNoNegate(period, other) == Add(period, other)

Subtract(period, other) == Add(period, Negate(other))

mulTrim(m) == [ok |-> m.ok, val |-> DecTrim(m.val, 0)]

\* a zero field is left alone
mulField(field, factor) ==
    IF field.coef # 0 THEN mulTrim(DecMul(field, factor))
    ELSE [ok |-> TRUE, val |-> DecZero]

mulFields(period, factor) == [f \in FieldSet |-> mulField(period[f], factor)]

\* Mul returning the zero period with its errors
productOfNothing(prods, neg) ==
    [period |-> IF Overflows(prods) = {} THEN NormaliseSign(FieldValues(prods, neg)) ELSE Zero,
     err    |-> Overflows(prods)]

\* the sign-normalised product and the errors of the multiplications
productOf(prods, neg) ==
    [period |-> NormaliseSign(FieldValues(prods, neg)),
     err    |-> Overflows(prods)]

\* Mul giving the product no overall sign
MulDropsSign(period, factor) == productOf(mulFields(period, factor), FALSE)

Mul(period, factor) == productOf(mulFields(period, factor), period.neg)

\* ------------------------------------------------------------------------
\* NewDecimal
\* ------------------------------------------------------------------------

\* the separator that precedes the first of the time designators
fractionSep(ymwd, hms) == IF Len(ymwd) > 0 /\ Len(hms) = 0 THEN <<"/">> ELSE <<>>

fractionsYMWD(years, months, weeks, days, hours, minutes, seconds) ==
    (IF years.scale > 0 /\ (months.coef # 0 \/ weeks.coef # 0 \/ days.coef # 0
                            \/ hours.coef # 0 \/ minutes.coef # 0 \/ seconds.coef # 0)
     THEN <<"Y">> ELSE <<>>)
    \o (IF months.scale > 0 /\ (weeks.coef # 0 \/ days.coef # 0 \/ hours.coef # 0
                                \/ minutes.coef # 0 \/ seconds.coef # 0)
        THEN <<"M">> ELSE <<>>)
    \o (IF weeks.scale > 0 /\ (days.coef # 0 \/ hours.coef # 0 \/ minutes.coef # 0
                               \/ seconds.coef # 0)
        THEN <<"W">> ELSE <<>>)
    \o (IF days.scale > 0 /\ (hours.coef # 0 \/ minutes.coef # 0 \/ seconds.coef # 0)
        THEN <<"D">> ELSE <<>>)

fractionH(ymwd, hours, minutes, seconds) ==
    IF hours.scale > 0 /\ (minutes.coef # 0 \/ seconds.coef # 0)
    THEN fractionSep(ymwd, <<>>) \o <<"H">> ELSE <<>>

fractionM(ymwd, hms, minutes, seconds) ==
    IF minutes.scale > 0 /\ seconds.coef # 0
    THEN hms \o fractionSep(ymwd, hms) \o <<"M">> ELSE hms

fractionS(ymwd, hms, seconds) ==
    IF seconds.scale > 0 /\ Len(ymwd) + Len(hms) > 0
    THEN hms \o fractionSep(ymwd, hms) \o <<"S">> ELSE hms

fractionsHMS(ymwd, hours, minutes, seconds) ==
    fractionS(ymwd,
              fractionM(ymwd, fractionH(ymwd, hours, minutes, seconds), minutes, seconds),
              seconds)

\* the designators reported as wrongly holding a fraction
fractionsFound(years, months, weeks, days, hours, minutes, seconds) ==
    fractionsYMWD(years, months, weeks, days, hours, minutes, seconds)
    \o fractionsHMS(fractionsYMWD(years, months, weeks, days, hours, minutes, seconds),
                    hours, minutes, seconds)

NewDecimalOf(p, found) ==
    [period |-> p,
     err |-> IF Len(found) > 0
             THEN Error("only the least significant field can have a fraction",
                        String(p), found)
             ELSE NoError]

\* the period is returned together with the error
NewDecimal(years, months, weeks, days, hours, minutes, seconds) ==
    NewDecimalOf(
        NormaliseSign(Period(DecTrim(years, 0), DecTrim(months, 0), DecTrim(weeks, 0),
                             DecTrim(days, 0), DecTrim(hours, 0), DecTrim(minutes, 0),
                             DecTrim(seconds, 0), FALSE)),
        fractionsFound(years, months, weeks, days, hours, minutes, seconds))

\* ------------------------------------------------------------------------
\* 64-bit quantities: eight limbs of four decimal digits, least significant
\* first, negative numbers as complements
\* ------------------------------------------------------------------------

Base == 10000

NLimbs == 8

BigZero == [i \in 1..NLimbs |-> 0]

\* n is a natural number below Base^3
BigOfNat(n) ==
    [i \in 1..NLimbs |->
        CASE i = 1 -> n % Base
          [] i = 2 -> (n \div Base) % Base
          [] i = 3 -> n \div (Base * Base)
          [] OTHER -> 0]

RECURSIVE bigMulFrom(_, _, _, _)
bigMulFrom(x, k, i, carry) ==
    IF i > NLimbs THEN <<>>
    ELSE LET v == x[i] * k + carry
         IN  <<v % Base>> \o bigMulFrom(x, k, i + 1, v \div Base)

\* x * Base
BigShiftLimb(x) == [i \in 1..NLimbs |-> IF i = 1 THEN 0 ELSE x[i - 1]]

RECURSIVE bigAddFrom(_, _, _, _)
bigAddFrom(x, y, i, carry) ==
    IF i > NLimbs THEN <<>>
    ELSE LET v == x[i] + y[i] + carry
         IN  <<v % Base>> \o bigAddFrom(x, y, i + 1, v \div Base)

BigAdd(x, y) == bigAddFrom(x, y, 1, 0)

\* x * k for a natural number k, taken in two parts when k is Base or more
BigMulSmall(x, k) ==
    IF k < Base THEN bigMulFrom(x, k, 1, 0)
    ELSE BigAdd(bigMulFrom(x, k % Base, 1, 0),
                BigShiftLimb(bigMulFrom(x, k \div Base, 1, 0)))

BigNeg(x) == BigAdd([i \in 1..NLimbs |-> Base - 1 - x[i]], BigOfNat(1))

BigIsZero(x) == x = BigZero

BigIsNeg(x) == x[NLimbs] >= Base \div 2

\* x \div 10 for x >= 0
BigDiv10(x) ==
    [i \in 1..NLimbs |->
        ((IF i < NLimbs THEN x[i + 1] % 10 ELSE 0) * Base + x[i]) \div 10]

\* x * 10^k
RECURSIVE BigShift(_, _)
BigShift(x, k) == IF k = 0 THEN x ELSE BigShift(BigMulSmall(x, 10), k - 1)

\* x * k for an integer k
BigMulInt(x, k) == IF k < 0 THEN BigNeg(BigMulSmall(x, -k)) ELSE BigMulSmall(x, k)

BigAbs(x) == IF BigIsNeg(x) THEN BigNeg(x) ELSE x

\* within the range of a 64-bit integer
BigFitsInt64(x) == BigAbs(x)[5] < 922 /\ \A i \in 6..NLimbs : BigAbs(x)[i] = 0

\* ------------------------------------------------------------------------
\* Duration
\* ------------------------------------------------------------------------

secondsPerDay  == 86400
daysPerYearE6  == 365242500
daysPerMonthE6 == daysPerYearE6 \div 12
oneE3          == 1000
oneE9          == 1000000000

Nanosecond == BigOfNat(1)
TimeSecond == BigOfNat(oneE9)
TimeMinute == BigMulSmall(TimeSecond, 60)
TimeHour   == BigMulSmall(TimeMinute, 60)

RECURSIVE fieldFactor(_, _)
fieldFactor(factor, i) == IF i > 0 THEN fieldFactor(BigDiv10(factor), i - 1) ELSE factor

fieldDurationOf(field, f) ==
    IF field.coef = 0 THEN BigZero
    ELSE IF ~BigIsZero(f) THEN BigMulInt(f, DecSign(field) * field.coef)
    ELSE BigZero

fieldDuration(field, factor) == fieldDurationOf(field, fieldFactor(factor, field.scale))

totalDaysApproxE9(period) ==
    BigAdd(BigAdd(fieldDuration(period.days, BigOfNat(oneE9)),
                  fieldDuration(period.weeks, BigMulSmall(BigOfNat(oneE9), 7))),
           BigAdd(fieldDuration(period.months, BigMulSmall(BigOfNat(daysPerMonthE6), oneE3)),
                  fieldDuration(period.years, BigMulSmall(BigOfNat(daysPerYearE6), oneE3))))

totalSeconds(period) ==
    BigAdd(BigAdd(fieldDuration(period.hours, TimeHour),
                  fieldDuration(period.minutes, TimeMinute)),
           fieldDuration(period.seconds, TimeSecond))

DurationOf(period, tdE9, stE9) ==
    [d |-> BigMulInt(BigAdd(tdE9, stE9), Sign(period)),
     precise |-> BigIsZero(tdE9)]

\* the duration in nanoseconds, and whether the conversion was precise
Duration(period) ==
    DurationOf(period, BigMulSmall(totalDaysApproxE9(period), secondsPerDay),
               totalSeconds(period))

\* ------------------------------------------------------------------------
\* NormaliseDaysToYears
\* ------------------------------------------------------------------------

threeSixSix == DecNew(366, 0)
daysPerYear == DecNew(3652425, 4)

\* the decimal times 10^scale
DecBig(d, scale) ==
    IF d.neg THEN BigNeg(BigShift(BigOfNat(d.coef), scale - d.scale))
    ELSE BigShift(BigOfNat(d.coef), scale - d.scale)

DecCmpAt(x, y) == IF x = y THEN 0 ELSE IF BigIsNeg(BigAdd(x, BigNeg(y))) THEN -1 ELSE 1

\* -1, 0 or 1 as d is less than, equal to or greater than e
DecCmp(d, e) ==
    DecCmpAt(DecBig(d, Max(d.scale, e.scale)), DecBig(e, Max(d.scale, e.scale)))

\* the days with seven for each week, the sign of the period applied; the
\* errors of the arithmetic are ignored
DaysIncWeeks(period) ==
    applySign(period, DecAdd(DecMul(period.weeks, seven).val, period.days).val)

\* the whole years go to years, the rest to weeks and days
daysToYearsSet(period, years, rem) ==
    setPair([period EXCEPT !.years = years.val], Week, Day,
            moveWholePartsLeft(DecZero, DecTrim(rem, 0), seven))

daysToYearsOf(period, qr, years) ==
    IF ~years.ok THEN period ELSE daysToYearsSet(period, years, qr.r)

daysToYearsBy(period, qr) ==
    IF ~qr.ok THEN period ELSE daysToYearsOf(period, qr, DecAdd(period.years, qr.q))

\* NormaliseDaysToYears of a period that is not negative
daysToYears(period, days) ==
    IF DecCmp(days, threeSixSix) < 0 THEN period
    ELSE daysToYearsBy(period, DecQuoRem(days, daysPerYear))

NormaliseDaysToYears(period) ==
    IF period.neg
    THEN Negate(daysToYears(Negate(period), DaysIncWeeks(Negate(period))))
    ELSE daysToYears(period, DaysIncWeeks(period))

\* ------------------------------------------------------------------------
\* AddTo: the time t is left symbolic; the result is t.AddDate(date) and
\* then .Add(d)
\* ------------------------------------------------------------------------

\* years, months, weeks and days are held without a fraction
wholeDates(period) ==
    /\ period.years.scale = 0
    /\ period.months.scale = 0
    /\ period.weeks.scale = 0
    /\ period.days.scale = 0

\* field.Int64(0) of a field of scale 0, negated when the period is negative
wholeInt(period, field) ==
    (IF period.neg THEN -1 ELSE 1) * DecSign(field) * field.coef

\* the hours, minutes and seconds as a duration, and whether they fit one
totalHrMinSec(period) ==
    [d |-> totalSeconds(period), ok |-> BigFitsInt64(totalSeconds(period))]

addDateOf(period, hms) ==
    [date |-> <<wholeInt(period, period.years), wholeInt(period, period.months),
                7 * wholeInt(period, period.weeks) + wholeInt(period, period.days)>>,
     d |-> IF period.neg THEN BigNeg(hms.d) ELSE hms.d,
     precise |-> hms.ok]

addDurationOf(res) == [date |-> <<0, 0, 0>>, d |-> res.d, precise |-> res.precise]

\* what is added to the time, and whether the addition was precise
AddTo(period) ==
    IF wholeDates(period) THEN addDateOf(period, totalHrMinSec(period))
    ELSE addDurationOf(Duration(period))

\* ------------------------------------------------------------------------
\* Inputs
\* ------------------------------------------------------------------------

\* texts parsed into the first operand
OperandTexts ==
    {<<"P", "1", "Y">>,
     <<"-", "P", "1", "Y">>,
     <<"P", "-", "1", "Y">>,
     <<"-", "P", "-", "1", "Y">>,
     <<"P", "1", "Y", "-", "2", "4", "M">>,
     <<"P", "T", "1", "M", "-", "6", "0", "S">>,
     <<"-", "P", "T", "1", "M", "-", "6", "0", "S">>,
     <<"P", "T", "1", "M", "-", "6", "0", ".", "0", "S">>,
     <<"-", "P", "T", "1", "M", "-", "1", "2", "0", "S">>,
     <<"P", "T", "3", "0", "S">>,
     <<"P", "T", "0", ".", "0", "0", "0", "0", "0", "0", "0", "0", "0", "1", "S">>,
     <<"P", "T", "0", ".", "0", "0", "0", "0", "0", "0", "0", "0", "0", "0", "1", "M">>,
     <<"P", "2", "Y">>,
     <<"P", "2", "Y", "1", "M">>,
     <<"P", "3", "6", "5", "D">>,
     <<"P", "9", "9", "9", "9", "9", "9", "9", "9", "W", "4", "0", "0", "D">>,
     <<"P", "3", "6", "6", "D">>,
     <<"-", "P", "1", "4", "6", "9", "D">>,
     <<"P", "1", "Y", "5", "2", "W", "2", "D", "T", "1", "H">>,
     <<"P", "7", "3", "0", ".", "4", "8", "5", "D">>,
     <<"P", "9", "9", "9", "9", "9", "9", "9", "9", "Y", "3", "6", "7", "D">>,
     <<"P", "T", "1", "6", "M", "4", "0", "S">>,
     <<"P", "7", "Y", "6", "M", "5", "W", "2", "D", "T", "6", "H", "4", "M", "2", "S">>,
     <<"P", "2", "Y", "4", "M", "6", "W", "8", "D">>,
     <<"P", "T", "1", "H">>,
     <<"P", "1", "D">>,
     <<"P", "1", "W", "-", "7", "D">>,
     <<"P", "0", ".", "5", "Y">>,
     <<"P", "1", "Y", "0", ".", "5", "M">>,
     <<"P", "T", "1", ".", "5", "0", "S">>,
     <<"P", "1", "Y", "T", "-", "1", "S">>,
     <<"P", "T", "4", "8", "H">>,
     <<"P", "1", "Y", "0", ".", "0", "M">>,
     <<"P", "0", ".", "0", "0", "0", "0", "0", "0", "0", "0", "0", "1", "D">>,
     <<"P", "1", "D", "2", "Y">>,
     <<"+", "P", "T", "0", "S">>,
     <<"-", "P", "0", ".", "0", "D">>,
     <<"P", "T", "2", "4", ".", "5", "H">>,
     <<"P", "T", "4", "9", ".", "5", "H">>,
     <<"P", "9", "9", "9", "9", "9", "9", "9", "9", "Y", "9", "9", "9", "9", "9", "9", "9", "9", "M", "1", "D">>,
     <<"P", "9", "9", "9", "9", "9", "9", "9", "9", "D", "T", "2", "4", "H">>,
     <<"P", "1", "4", "D", "T", "6", "0", ".", "5", "S">>}

\* texts parsed into the second operand
OtherTexts ==
    {<<"P", "1", "Y">>,
     <<"P", "T", "3", "0", "S">>,
     <<"P", "T", "1", "0", "0", "0", "S">>,
     <<"P", "1", "Y", "2", "M", "3", "W", "2", "D", "T", "3", "H", "2", "M", "1", "S">>,
     <<"-", "P", "T", "1", ".", "5", "S">>,
     <<"P", "0", ".", "5", "M">>,
     <<"-", "P", "1", "Y">>,
     <<"P", "0", "D">>,
     <<"P", "9", "9", "9", "9", "9", "9", "9", "9", "Y", "9", "9", "9", "9", "9", "9", "9", "9", "M">>}

\* texts with something wrong or unusual in them
MalformedTexts ==
    {<<>>,
     <<"-">>,
     <<"+">>,
     <<"P">>,
     <<"-", "P">>,
     <<"X", "Y">>,
     <<"P", "T", "1">>,
     <<"P", "0", "0", "0">>,
     <<"P", "x", "Y">>,
     <<"P", "T", "1", "A">>,
     <<"P", "1", "H", "T", "1", "M">>,
     <<"P", "T", "1", "Y">>,
     <<"P", "1", "S">>,
     <<"P", "1", "D", "2", "D">>,
     <<"P", "T", "1", "H", "T", "1", "S">>,
     <<"P", "0", ".", "1", "Y", "T", "0", ".", "1", "S">>,
     <<"P", "1", ".", "1", ".", "1", "Y">>,
     <<"P", "-", "Y">>,
     <<"P", "0", ".", "5", "Y", "1", "M">>,
     <<"P", "1", ",", "5", "Y">>,
     <<"P", "0", "1", "Y">>,
     <<"P", "T", "0", ",", "5", "S">>,
     <<"-", "P", "1", "S">>,
     <<"+", "X", "Y">>,
     <<"-", "P", "T", "1">>,
     <<"P", "1", "0", "0", "0", "0", "0", "0", "0", "1", "Y">>,
     <<"P", "0", ".", "0", "D">>,
     <<"P", "1", "D", "0", ".", "5", "Y">>,
     <<"P", "1", ".", "0", "Y", "2", "M">>,
     <<"P", "0", ".", "5", "Y", "0", "M", "1", "D">>}

\* the zero forms, with and without a sign
SignedZeroTexts ==
    {<<"P", "0", "Y">>,
     <<"P", "0", "M">>,
     <<"P", "0", "W">>,
     <<"P", "0", "D">>,
     <<"P", "T", "0", "H">>,
     <<"P", "T", "0", "M">>,
     <<"P", "T", "0", "S">>,
     <<"-", "P", "0", "Y">>,
     <<"-", "P", "0", "M">>,
     <<"-", "P", "0", "W">>,
     <<"-", "P", "0", "D">>,
     <<"-", "P", "T", "0", "H">>,
     <<"-", "P", "T", "0", "M">>,
     <<"-", "P", "T", "0", "S">>,
     <<"+", "P", "0", "Y">>,
     <<"+", "P", "0", "M">>,
     <<"+", "P", "0", "W">>,
     <<"+", "P", "0", "D">>,
     <<"+", "P", "T", "0", "H">>,
     <<"+", "P", "T", "0", "M">>,
     <<"+", "P", "T", "0", "S">>}

\* a number followed by each designator letter
FieldTexts == {<<"1", l>> : l \in {"Y", "M", "W", "D", "H", "S"}}

\* every two fields in every order, before 'T', after it, and around it
OrderTexts ==
    {<<"P">> \o f \o g : f \in FieldTexts, g \in FieldTexts}
    \cup {<<"P", "T">> \o f \o g : f \in FieldTexts, g \in FieldTexts}
    \cup {<<"P">> \o f \o <<"T">> \o g : f \in FieldTexts, g \in FieldTexts}

Texts == OperandTexts \cup OtherTexts \cup MalformedTexts \cup SignedZeroTexts \cup OrderTexts

\* factors for Mul
Factors == {DecNew(2, 0), DecNew(0, 0), DecNew(-5, 1), DecNew(5, 1), DecNew(-1, 0)}

\* values for the fields given to NewDecimal
DecimalInputs == {DecZero, DecOne, DecNew(5, 1), DecNew(-20, 1)}

\* what Store may keep as the operand of further operations
ResultOps == {"NewDecimal", "Add", "Subtract", "Mul", "Negate", "Normalise", "NormaliseSign"}

\* ------------------------------------------------------------------------
\* A caller: it constructs a period, applies operations to it, and may go on
\* with a result
\* ------------------------------------------------------------------------

VARIABLES
    a,      \* the period operated on
    b,      \* the other operand of the last Add or Subtract
    r,      \* the period the last operation returned
    op,     \* the last operation
    arg,    \* its other input: a factor, a mode
    err,    \* the error it returned
    ovf,    \* the fields in which it overflowed
    txt,    \* the text it parsed or wrote
    dur,    \* the duration it returned, or what AddTo added to the time
    depth,  \* how many results have been taken as the operand
    st      \* the locals of a Parse that is under way

vars == <<a, b, r, op, arg, err, ovf, txt, dur, depth, st>>

NoArg == "-"

NoDuration == [d |-> BigZero, precise |-> FALSE]

\* no Parse is under way
NoLocals == parseStart(<<"P">>, Zero)

Init ==
    /\ a = Zero
    /\ b = Zero
    /\ r = Zero
    /\ op = "init"
    /\ arg = NoArg
    /\ err = NoError
    /\ ovf = {}
    /\ txt = <<>>
    /\ dur = NoDuration
    /\ depth = 0
    /\ st = NoLocals

\* a caller has a period to work on
Ready == op \in {"LoadA", "Store"} /\ err = NoError

Loaded(s, res) ==
    /\ a' = res.period
    /\ r' = res.period
    /\ err' = res.err
    /\ txt' = s
    /\ op' = "LoadA"
    /\ UNCHANGED <<b, arg, ovf, dur, depth, st>>

\* period.Parse(s) on the caller's period
LoadA ==
    \E s \in OperandTexts \cup MalformedTexts :
        op \in {"init", "LoadA"} /\ Loaded(s, ParseMethod(a, s))

\* what a constructor leaves behind: the period and the error it returned
Returned(name, s, input, res) ==
    /\ r' = res.period
    /\ err' = res.err
    /\ txt' = s
    /\ arg' = input
    /\ op' = name
    /\ UNCHANGED <<a, b, ovf, dur, depth, st>>

\* p, err := Parse(s)
ParseText == \E s \in Texts : op = "init" /\ Returned("Parse", s, arg, Parse(s))

\* p, err := NewDecimal(...)
NewDecimalOf4(y, mo, d, s) ==
    Returned("NewDecimal", txt, <<y, mo, DecZero, d, DecZero, DecZero, s>>,
             NewDecimal(y, mo, DecZero, d, DecZero, DecZero, s))

NewDecimalOp ==
    \E y \in DecimalInputs, mo \in DecimalInputs, d \in DecimalInputs, s \in DecimalInputs :
        op = "init" /\ NewDecimalOf4(y, mo, d, s)

\* what an operation on a leaves behind: its name, inputs and results
Did(name, other, input, period, overflows, text, duration) ==
    /\ op' = name
    /\ b' = other
    /\ arg' = input
    /\ r' = period
    /\ ovf' = overflows
    /\ txt' = text
    /\ dur' = duration
    /\ err' = NoError
    /\ UNCHANGED <<a, depth, st>>

\* what an operation of two periods leaves behind
DidBoth(name, other, res) ==
    Did(name, other, NoArg, res.period, res.err, <<>>, NoDuration)

AddOther(other) == DidBoth("Add", other, Add(a, other))

AddOp == \E s \in OtherTexts : Ready /\ AddOther(Parse(s).period)

SubtractFrom(other) == DidBoth("Subtract", other, Subtract(a, other))

SubtractOp == \E s \in OtherTexts : Ready /\ SubtractFrom(Parse(s).period)

\* after a.Add(b): the sum less b
DidBack(res) == Did("AddSubtract", b, ovf, res.period, res.err, <<>>, NoDuration)

SubtractBack == op = "Add" /\ DidBack(Subtract(r, b))

DidMul(f, res) == Did("Mul", Zero, f, res.period, res.err, <<>>, NoDuration)

MulOp == \E f \in Factors : Ready /\ DidMul(f, Mul(a, f))

NegateOp ==
    /\ Ready
    /\ Did("Negate", Zero, NoArg, Negate(a), {}, <<>>, NoDuration)

NormaliseOp ==
    \E precise \in BOOLEAN :
        /\ Ready
        /\ Did("Normalise", Zero, precise, Normalise(a, precise), {}, <<>>, NoDuration)

SimplifyOp ==
    \E precise \in BOOLEAN :
        /\ Ready
        /\ Did("Simplify", Zero, precise, Simplify(a, precise), {}, <<>>, NoDuration)

NormaliseDaysToYearsOp ==
    /\ Ready
    /\ Did("NormaliseDaysToYears", Zero, NoArg, NormaliseDaysToYears(a), {}, <<>>, NoDuration)

NormaliseSignOp ==
    /\ Ready
    /\ Did("NormaliseSign", Zero, NoArg, NormaliseSign(a), {}, <<>>, NoDuration)

StringOp ==
    /\ Ready
    /\ Did("String", Zero, NoArg, Zero, {}, String(a), NoDuration)

\* after s := a.String(): Parse(s)
Reparsed(res) ==
    /\ op' = "Reparse"
    /\ r' = res.period
    /\ err' = res.err
    /\ UNCHANGED <<a, b, arg, ovf, txt, dur, depth, st>>

Reparse == op = "String" /\ Reparsed(Parse(txt))

\* |x| is below 922 * 10^16, which is below 2^63
DurationOp ==
    /\ Ready
    /\ BigFitsInt64(BigMulSmall(totalDaysApproxE9(Abs(a)), secondsPerDay))
    /\ Did("Duration", Zero, NoArg, Zero, {}, <<>>, Duration(a))

\* t1, precise := a.AddTo(t)
AddToOp ==
    /\ Ready
    /\ BigFitsInt64(BigMulSmall(totalDaysApproxE9(Abs(a)), secondsPerDay))
    /\ Did("AddTo", Zero, NoArg, Zero, {}, <<>>, AddTo(a))

\* the caller goes on with the period just returned
Store ==
    /\ op \in ResultOps
    /\ ovf = {}
    /\ depth < MaxDepth
    /\ a' = r
    /\ op' = "Store"
    /\ depth' = depth + 1
    /\ b' = Zero
    /\ arg' = NoArg
    /\ err' = NoError
    /\ txt' = <<>>
    /\ dur' = NoDuration
    /\ UNCHANGED <<r, ovf, st>>

Next ==
    \/ LoadA
    \/ ParseText
    \/ NewDecimalOp
    \/ AddOp
    \/ SubtractOp
    \/ SubtractBack
    \/ MulOp
    \/ NegateOp
    \/ NormaliseDaysToYearsOp
    \/ NormaliseOp
    \/ SimplifyOp
    \/ NormaliseSignOp
    \/ StringOp
    \/ Reparse
    \/ DurationOp
    \/ AddToOp
    \/ Store

Spec == Init /\ [][Next]_vars

\* ------------------------------------------------------------------------
\* Parse turn by turn: each turn of its loop is a step
\* ------------------------------------------------------------------------

\* Parse(s) returns before its loop
ParseAtOnce ==
    \E s \in Texts : op = "init" /\ ~reachesLoop(s) /\ Returned("Parse", s, arg, Parse(s))

\* Parse(s) goes into its loop
ParseBegin ==
    \E s \in Texts :
        /\ op = "init"
        /\ reachesLoop(s)
        /\ op' = "parsing"
        /\ txt' = s
        /\ st' = parseStart(Unsigned(s), signed(s))
        /\ UNCHANGED <<a, b, r, arg, err, ovf, dur, depth>>

\* one turn of the loop
ParseTurn ==
    /\ op = "parsing"
    /\ Len(st.remaining) > 0
    /\ st.err = NoError
    /\ st' = parseTurn(st, txt)
    /\ UNCHANGED <<a, b, r, op, arg, err, ovf, txt, dur, depth>>

ParseReturned(res) ==
    /\ op' = "Parse"
    /\ r' = res.period
    /\ err' = res.err
    /\ UNCHANGED <<a, b, arg, ovf, txt, dur, depth, st>>

\* the loop is left, at the end of the text or with an error
ParseReturn ==
    /\ op = "parsing"
    /\ Len(st.remaining) = 0 \/ st.err # NoError
    /\ ParseReturned(assignParsed(Zero, parseEnd(txt, st)))

ParseNext ==
    \/ ParseAtOnce
    \/ ParseBegin
    \/ ParseTurn
    \/ ParseReturn

ParseSpec == Init /\ [][ParseNext]_vars

\* ------------------------------------------------------------------------
\* Properties
\* ------------------------------------------------------------------------

\* the zero period, or a period whose first non-zero field is positive
Canonical(period) ==
    \/ period = Zero
    \/ \E i \in 1..7 :
          /\ period[Fields[i]].coef # 0
          /\ ~period[Fields[i]].neg
          /\ \A j \in 1..(i - 1) : period[Fields[j]].coef = 0

AllZero(period) == \A f \in FieldSet : period[f].coef = 0

\* the operations that parse a text
Parsed == op \in {"Parse", "LoadA", "Reparse"}

\* C1: every period that Parse returns without an error is canonical: the
\* zero period itself, or a period whose first non-zero field is positive.
C1_ParseCanonical == Parsed /\ err = NoError => Canonical(r)

\* a text with no leading sign whose first field is negative was parsed,
\* and the sign went to neg
C1_Witness ==
    /\ op = "Parse"
    /\ err = NoError
    /\ txt[1] = "P"
    /\ r.neg
    /\ Canonical(r)
    /\ r # Zero

\* C2 as stated: every text the formatter writes, for any period, parses,
\* and the parsed period is written as the same text.
C2_AnyPeriodRoundTrips == op = "Reparse" => err = NoError /\ String(r) = txt

\* no field with a fraction is followed by another non-zero field
FractionLast(period) ==
    \A i \in 1..7 : \A j \in (i + 1)..7 :
        ~(/\ period[Fields[i]].coef # 0
          /\ period[Fields[i]].scale > 0
          /\ period[Fields[j]].coef # 0)

\* C2: every text the formatter writes for a canonical period whose only
\* fraction is in its last non-zero field, mixed signs included, parses, and
\* the parsed period is written as the same text.
C2_CanonicalPeriodRoundTrips ==
    op = "Reparse" /\ Canonical(a) /\ FractionLast(a)
        => err = NoError /\ String(r) = txt

\* the text of a canonical period of mixed signs was parsed again
C2_Witness ==
    /\ op = "Reparse"
    /\ Canonical(a)
    /\ FractionLast(a)
    /\ err = NoError
    /\ \E f \in FieldSet : a[f].neg
    /\ \E f \in FieldSet : a[f].coef # 0 /\ ~a[f].neg
    /\ String(r) = txt

\* the value of a field with the sign of the period applied, trimmed
Effective(period, f) == DecTrim(applySign(period, period[f]), 0)

\* the two periods have the same effective value in every field
FieldEqual(p, q) == \A f \in FieldSet : Effective(p, f) = Effective(q, f)

MaxScale(p, q) ==
    CHOOSE m \in 0..30 :
        /\ \A f \in FieldSet : p[f].scale <= m /\ q[f].scale <= m
        /\ \E f \in FieldSet : p[f].scale = m \/ q[f].scale = m

\* the effective value of the field times 10^scale, as a big integer
BigOfField(period, f, scale) ==
    LET d == applySign(period, period[f])
        m == BigShift(BigOfNat(d.coef), scale - d.scale)
    IN  IF d.neg THEN BigNeg(m) ELSE m

\* what the period amounts to in months, in days and in seconds, each times
\* 10^scale: the three sums that Normalise(precise = true) preserves
Totals(period, scale) ==
    << BigAdd(BigMulSmall(BigOfField(period, Year, scale), 12),
              BigOfField(period, Month, scale)),
       BigAdd(BigMulSmall(BigOfField(period, Week, scale), 7),
              BigOfField(period, Day, scale)),
       BigAdd(BigMulSmall(BigOfField(period, Hour, scale), 3600),
              BigAdd(BigMulSmall(BigOfField(period, Minute, scale), 60),
                     BigOfField(period, Second, scale))) >>

\* C3 as stated: when nothing overflows, Subtract(Add(a, b), b) is equal,
\* field by field, to NormaliseSign(Normalise(a, true)).
C3_SubtractRestoresFields ==
    op = "AddSubtract" /\ arg = {} /\ ovf = {}
        => FieldEqual(r, NormaliseSign(Normalise(a, TRUE)))

\* C3: when nothing overflows, Subtract(Add(a, b), b) amounts to as many
\* months (12 years + months), days (7 weeks + days) and seconds
\* (3600 hours + 60 minutes + seconds) as a does; its fields may differ from
\* those of NormaliseSign(Normalise(a, true)) by a carry that the addition
\* made and the subtraction did not undo.
C3_SubtractRestoresTotals ==
    op = "AddSubtract" /\ arg = {} /\ ovf = {}
        => Totals(r, MaxScale(a, r)) = Totals(a, MaxScale(a, r))

\* the sum carried into a larger field and the difference kept the carry
C3_Witness ==
    /\ op = "AddSubtract"
    /\ arg = {}
    /\ ovf = {}
    /\ ~AllZero(b)
    /\ ~FieldEqual(r, NormaliseSign(Normalise(a, TRUE)))
    /\ Totals(r, MaxScale(a, r)) = Totals(a, MaxScale(a, r))

\* the sum of the effective values of the two periods, field by field
EffectiveSum(p, q) ==
    [f \in FieldSet |-> DecAdd(applySign(p, p[f]), applySign(q, q[f])).val]
        @@ [neg |-> FALSE]

T_PT33M20S == <<"P", "T", "3", "3", "M", "2", "0", "S">>
T_PT16M40S == <<"P", "T", "1", "6", "M", "4", "0", "S">>
T_PT1000S == <<"P", "T", "1", "0", "0", "0", "S">>
T_Sum1 == <<"P", "7", "Y", "6", "M", "5", "W", "2", "D", "T", "6", "H", "4", "M", "2", "S">>
T_Sum2 == <<"P", "1", "Y", "2", "M", "3", "W", "2", "D", "T", "3", "H", "2", "M", "1", "S">>
T_Sum == <<"P", "8", "Y", "8", "M", "8", "W", "4", "D", "T", "9", "H", "6", "M", "3", "S">>

\* C4: when nothing overflows, Add(a, b) is NormaliseSign(Normalise(s, true))
\* where each field of s is the sum of the effective values of that field in
\* a and in b; PT16M40S + PT1000S = PT33M20S and
\* P7Y6M5W2DT6H4M2S + P1Y2M3W2DT3H2M1S = P8Y8M8W4DT9H6M3S.
C4_AddIsNormalisedSum ==
    op = "Add" /\ ovf = {}
        => /\ r = NormaliseSign(Normalise(EffectiveSum(a, b), TRUE))
           /\ a = Parse(T_PT16M40S).period /\ b = Parse(T_PT1000S).period
                => r = Parse(T_PT33M20S).period
           /\ a = Parse(T_Sum1).period /\ b = Parse(T_Sum2).period
                => r = Parse(T_Sum).period

\* a negative period was added to a positive one and the sum carried
C4_Witness ==
    /\ op = "Add"
    /\ ovf = {}
    /\ a.neg # b.neg
    /\ ~AllZero(a)
    /\ ~AllZero(b)
    /\ r # EffectiveSum(a, b)
    /\ r = NormaliseSign(Normalise(EffectiveSum(a, b), TRUE))

\* the years, months, weeks and days of the period in days, exactly, times
\* 10^(6 + scale), a year being 365.2425 days and a month a twelfth of it
\* (146097 * 2500 = daysPerYearE6 and 48699 * 625 = daysPerMonthE6)
DaysContribution(period, scale) ==
    LET yy == BigMulSmall(BigMulSmall(BigOfField(period, Year, scale), 146097), 2500)
        mm == BigMulSmall(BigMulSmall(BigOfField(period, Month, scale), 48699), 625)
        ww == BigMulSmall(BigMulSmall(BigOfField(period, Week, scale), 7000), 1000)
        dd == BigMulSmall(BigMulSmall(BigOfField(period, Day, scale), 1000), 1000)
    IN  BigAdd(BigAdd(yy, mm), BigAdd(ww, dd))

T_PT1H == <<"P", "T", "1", "H">>
T_P1D == <<"P", "1", "D">>

\* C5: Duration(p) is precise if and only if the years, months, weeks and
\* days of p contribute exactly nothing; PT1H gives (1 hour, true) and P1D
\* gives (24 hours, false).
C5_PreciseIffNoDays ==
    op = "Duration"
        => /\ dur.precise <=> BigIsZero(DaysContribution(a, MaxScale(a, a)))
           /\ a = Parse(T_PT1H).period => dur = [d |-> TimeHour, precise |-> TRUE]
           /\ a = Parse(T_P1D).period
                => dur = [d |-> BigMulSmall(TimeHour, 24), precise |-> FALSE]

DateDesignators == <<"Y", "M", "W", "D">>
TimeDesignators == <<"H", "M", "S">>

\* the letters of the text
Letters(s) == SelectSeq(s, LAMBDA c : ~IsDigit(c) /\ c \notin {"+", "-", ".", ","})

\* the place of the letter among the designators, 0 when it is none of them
Place(c, designators) ==
    IF \E k \in 1..Len(designators) : designators[k] = c
    THEN CHOOSE k \in 1..Len(designators) : designators[k] = c
    ELSE 0

\* the letters of the text are "P", date designators, and perhaps "T" and
\* time designators, and two designators of the same part are out of order
OutOfOrder(s) ==
    LET l == Letters(s)
        t == IF \E i \in 1..Len(l) : l[i] = "T"
             THEN CHOOSE i \in 1..Len(l) : l[i] = "T" /\ \A j \in 1..(i - 1) : l[j] # "T"
             ELSE Len(l) + 1
        place(i) == IF i < t THEN Place(l[i], DateDesignators)
                    ELSE Place(l[i], TimeDesignators)
    IN  /\ Len(l) >= 3
        /\ l[1] = "P"
        /\ \A i \in 2..Len(l) : i # t => place(i) > 0
        /\ \E i \in 2..Len(l), j \in 2..Len(l) :
              /\ i < j
              /\ (i < t) = (j < t)
              /\ i # t /\ j # t
              /\ place(i) > place(j)

\* C6: Parse rejects a text whose date fields are not in the order Y, M, W,
\* D, or whose time fields are not in the order H, M, S, with the error of a
\* designator out of sequence.
C6_OutOfOrderRejected ==
    Parsed /\ OutOfOrder(txt) => err.kind = "designator cannot occur here"

\* the fields given to NewDecimal, trimmed and sign-normalised
Populated(fields) ==
    NormaliseSign(Period(DecTrim(fields[1], 0), DecTrim(fields[2], 0),
                         DecTrim(fields[3], 0), DecTrim(fields[4], 0),
                         DecTrim(fields[5], 0), DecTrim(fields[6], 0),
                         DecTrim(fields[7], 0), FALSE))

\* the Parse method leaves its receiver alone when it returns an error
ReceiverKept == op' = "LoadA" /\ err' # NoError => a' = a

\* C7 as stated: the period that Parse or NewDecimal returns with an error,
\* or the receiver of the Parse method, holds nothing of the rejected input.
C7_NoPeriodWithError ==
    /\ [](op \in {"Parse", "NewDecimal"} /\ err # NoError => r = Zero)
    /\ [][ReceiverKept]_vars

\* C7: the period that Parse returns with an error is the zero value, and
\* the Parse method leaves its receiver as it was; NewDecimal returns with
\* its error the period made of the fields it was given.
C7_ParseAbortsNewDecimalPopulates ==
    /\ [](op = "Parse" /\ err # NoError => r = Zero)
    /\ [][ReceiverKept]_vars
    /\ [](op = "NewDecimal" /\ err # NoError => r = Populated(arg) /\ r # Zero)

\* the Parse method rejected a text some of whose fields it had scanned, and
\* its receiver still holds the period of the text parsed before
C7_Witness ==
    /\ op = "LoadA"
    /\ err # NoError
    /\ a # Zero
    /\ parseText(txt).p # Zero

\* C8: a period whose seven fields are all zero is written as "P0D",
\* whatever operations produced it.
C8_ZeroIsP0D == op = "String" /\ AllZero(a) => txt = <<"P", "0", "D">>

\* C9: NormaliseSign is idempotent, on canonical periods and on periods of
\* any mixture of field signs, with neg true or false.
C9_NormaliseSignIdempotent == op = "NormaliseSign" => NormaliseSign(r) = r

\* NormaliseSign changed a period that was not canonical
C9_Witness ==
    /\ op = "NormaliseSign"
    /\ ~Canonical(a)
    /\ r # a
    /\ r.neg
    /\ NormaliseSign(r) = r

T_P2Y4M6W8D == <<"P", "2", "Y", "4", "M", "6", "W", "8", "D">>
T_Half == <<"-", "P", "1", "Y", "2", "M", "3", "W", "4", "D">>

\* C10: when nothing overflows, Mul(p, f) of a canonical period p is the
\* canonical period whose effective field values are those of p, each
\* multiplied by f, nothing carried between fields; a negative factor
\* reverses the overall sign, and Mul(P2Y4M6W8D, -0.5) = -P1Y2M3W4D.
C10_MulMultipliesFields ==
    op = "Mul" /\ Canonical(a) /\ ovf = {}
        => /\ Canonical(r)
           /\ \A f \in FieldSet :
                 Effective(r, f) = DecTrim(DecMul(applySign(a, a[f]), arg).val, 0)
           /\ a = Parse(T_P2Y4M6W8D).period /\ arg = DecNew(-5, 1)
                => r = Parse(T_Half).period

\* a negative factor reversed the overall sign of a period of several fields
C10_Witness ==
    /\ op = "Mul"
    /\ Canonical(a)
    /\ ovf = {}
    /\ arg.neg
    /\ ~a.neg
    /\ r.neg
    /\ \E f \in FieldSet, g \in FieldSet : f # g /\ a[f].coef # 0 /\ a[g].coef # 0
    /\ Canonical(r)

\* the period that has only an hours or a days field
OnlyHours(n) == Period(DecZero, DecZero, DecZero, DecZero, DecNew(n, 0), DecZero, DecZero, FALSE)

OnlyDays(n) == Period(DecZero, DecZero, DecZero, DecNew(n, 0), DecZero, DecZero, DecZero, FALSE)

\* the days and the time of day are the same in both periods, separately
SameDaysAndTime(p, q, scale) ==
    /\ Totals(p, scale)[2] = Totals(q, scale)[2]
    /\ Totals(p, scale)[3] = Totals(q, scale)[3]

\* the days and the time of day together, at 24 hours a day, are the same
SameDaysWithTime(p, q, scale) ==
    BigAdd(BigMulInt(Totals(p, scale)[2], secondsPerDay), Totals(p, scale)[3])
        = BigAdd(BigMulInt(Totals(q, scale)[2], secondsPerDay), Totals(q, scale)[3])

\* fewer than 24 hours in the hours field
BelowADay(h) == DecIsZero(DecQuoRem(h, twentyFour).q)

\* the remainder of a carry is not zero and is less than one
LeavesAPart(rem) == ~DecIsZero(rem) /\ DecPrec(rem) <= rem.scale

\* Normalise(PT48H, true) = PT48H and Normalise(PT48H, false) = P2D
C11_Examples ==
    op = "Normalise" /\ a = OnlyHours(48)
        => r = (IF arg THEN OnlyHours(48) ELSE OnlyDays(2))

\* C11 as stated: Normalise(p, true) moves nothing from hours into days, and
\* Normalise(p, false) carries every whole multiple of 24 hours into days, so
\* that fewer than 24 hours are left.
C11_CarriesEveryMultiple ==
    op = "Normalise"
        => /\ C11_Examples
           /\ arg => SameDaysAndTime(a, r, MaxScale(a, r))
           /\ ~arg => BelowADay(r.hours)

\* C11 amended: Normalise(p, true) moves nothing from hours into days;
\* Normalise(p, false) keeps days and time together at 24 hours a day, and
\* leaves fewer than 24 hours unless the carry is declined: the remainder
\* would be a part of an hour, or the days would overflow.
C11_CarriesUnlessDeclined ==
    op = "Normalise"
        => /\ C11_Examples
           /\ arg => SameDaysAndTime(a, r, MaxScale(a, r))
           /\ ~arg => /\ SameDaysWithTime(a, r, MaxScale(a, r))
                      /\ \/ BelowADay(r.hours)
                         \/ LeavesAPart(DecQuoRem(r.hours, twentyFour).r)
                         \/ ~DecAdd(a.days, DecQuoRem(r.hours, twentyFour).q).ok

\* PT48H was normalised imprecisely into P2D
C11_Witness ==
    op = "Normalise" /\ arg = FALSE /\ a = OnlyHours(48) /\ r = OnlyDays(2)

\* Parse returned an error (a panic returns nothing)
ParseFailed == Parsed /\ err # NoError /\ err.kind # "panic"

BlankError == Error("cannot parse a blank string as a period", <<>>, <<>>)

\* C12 as stated: every error that Parse returns quotes the whole input
\* text, leading sign included.
C12_EveryErrorQuotesInput == ParseFailed => err.text = txt

\* C12 amended: every error that Parse returns quotes the whole input text,
\* leading sign included, except the blank-string error, which quotes
\* nothing and is returned for the empty text and for a sign alone.
C12_ErrorQuotesInputUnlessBlank ==
    ParseFailed =>
        IF txt \in {<<>>, <<"-">>, <<"+">>} THEN err = BlankError
        ELSE err.text = txt /\ Len(err.text) > 0

\* a signed text was rejected for a misplaced designator and the error
\* quotes it with its sign
C12_Witness ==
    /\ ParseFailed
    /\ err.kind = "designator cannot occur here"
    /\ txt[1] = "-"
    /\ err.text = txt

\* C13: Parse never panics: for every text, malformed numbers, a lone sign
\* before a designator and numbers out of range included, it returns a
\* period or an error.
C13_ParseNeverPanics == Parsed => err.kind # "panic"

\* the value has digits other than zero after the point
HasFraction(d) == DecTrim(d, 0).scale > 0

\* some field with a fraction is more significant than a non-zero field
FractionMisplaced(fields) ==
    \E i \in 1..7, j \in 1..7 :
        i < j /\ HasFraction(fields[i]) /\ fields[j].coef # 0

\* C14: NewDecimal returns the fraction-placement error exactly when a field
\* with a non-zero fractional part is more significant than another non-zero
\* field.
C14_FractionErrorExactly ==
    op = "NewDecimal" => (err # NoError <=> FractionMisplaced(arg))

\* the fields in which adding the effective values overflows
OverflowsInSum(p, q) ==
    {f \in FieldSet : ~DecAdd(applySign(p, p[f]), applySign(q, q[f])).ok}

\* the non-zero fields in which multiplying by the factor overflows
OverflowsInProduct(p, factor) ==
    {f \in FieldSet : p[f].coef # 0 /\ ~DecMul(p[f], factor).ok}

\* C15: Add and Mul go through all seven fields even after one overflows:
\* the error holds one overflow for each field that overflowed, so it is
\* non-nil exactly when some field overflowed, and the other fields are
\* still computed.
C15_OverflowsAggregated ==
    /\ op = "Add"
        => /\ ovf = OverflowsInSum(a, b)
           /\ r = NormaliseSign(Normalise(EffectiveSum(a, b), TRUE))
    /\ op = "Mul"
        => /\ ovf = OverflowsInProduct(a, arg)
           /\ Canonical(a) =>
                 \A f \in FieldSet \ ovf :
                    Effective(r, f) = DecTrim(DecMul(applySign(a, a[f]), arg).val, 0)

\* two fields overflowed in an addition and a third was still added
C15_Witness ==
    /\ op = "Add"
    /\ Cardinality(ovf) = 2
    /\ \E f \in FieldSet \ ovf : r[f].coef # 0 /\ a[f].coef # 0

\* two fields overflowed in a multiplication and a third was still multiplied
C15_MulWitness ==
    /\ op = "Mul"
    /\ Cardinality(ovf) = 2
    /\ \E f \in FieldSet \ ovf : r[f].coef # 0

\* the steps of Normalise in their order: the larger field, the smaller
\* field, and how many of the smaller make one of the larger
NormaliseSteps ==
    << <<Minute, Second, sixty>>, <<Hour, Minute, sixty>>, <<Day, Hour, twentyFour>>,
       <<Week, Day, seven>>, <<Year, Month, twelve>> >>

\* the step from hours to days is left out of a precise normalisation
LeftOut(k, precise) == k = 3 /\ precise

\* the period after the first k steps
RECURSIVE AfterSteps(_, _, _)
AfterSteps(p, precise, k) ==
    IF k = 0 THEN p
    ELSE IF LeftOut(k, precise) THEN AfterSteps(p, precise, k - 1)
    ELSE rippleLeft(AfterSteps(p, precise, k - 1),
                    NormaliseSteps[k][1], NormaliseSteps[k][2], NormaliseSteps[k][3])

\* the carry cannot be made: the division fails, the remainder is not
\* simple, or the larger field would overflow
CarryDeclined(larger, qr) ==
    \/ ~qr.ok
    \/ LeavesAPart(qr.r)
    \/ ~DecAdd(larger, qr.q).ok

\* from p to q one step was made: the pair is as it was when the carry is
\* declined, and otherwise holds the carried quotient and the remainder;
\* no other field has changed
StepMade(p, q, larger, smaller, qr) ==
    /\ \A f \in FieldSet \ {larger, smaller} : q[f] = p[f]
    /\ q.neg = p.neg
    /\ IF CarryDeclined(p[larger], qr)
       THEN q[larger] = p[larger] /\ q[smaller] = p[smaller]
       ELSE q[larger] = DecAdd(p[larger], qr.q).val /\ q[smaller] = qr.r

StepMadeAt(p, q, step) ==
    StepMade(p, q, step[1], step[2], DecQuoRem(p[step[2]], step[3]))

\* C16: Normalise reports no error: a step whose carry would overflow or
\* leave a remainder that is not simple is skipped with both fields as they
\* were, and the steps after it are still made.
C16_DeclinedStepsKeepFields ==
    op = "Normalise"
        => /\ r = AfterSteps(a, arg, 5)
           /\ \A k \in 1..5 :
                 \/ LeftOut(k, arg)
                 \/ StepMadeAt(AfterSteps(a, arg, k - 1), AfterSteps(a, arg, k),
                               NormaliseSteps[k])

\* the carry of 24 hours into 99999999 days overflowed and was declined, and
\* the days were then carried into weeks
C16_Witness ==
    /\ op = "Normalise"
    /\ ~arg
    /\ a.days = DecNew(99999999, 0)
    /\ ~DecAdd(a.days, DecOne).ok
    /\ r.hours = DecNew(24, 0)
    /\ r.weeks = DecNew(14285714, 0)
    /\ r.days = DecNew(1, 0)

\* years, months, weeks or days has digits other than zero after the point
DateHasFraction(period) ==
    \E f \in {Year, Month, Week, Day} : HasFraction(period[f])

\* C17: AddTo returns precise = false whenever years, months, weeks or days
\* carries a fractional part.
C17_FractionIsApproximate ==
    op = "AddTo" /\ DateHasFraction(a) => ~dur.precise

T_P1Y == <<"P", "1", "Y">>
T_NegNegP1Y == <<"-", "P", "-", "1", "Y">>

\* the text with a minus sign put before it
Minus(s) == <<"-">> \o s

\* C18: for every text s without a leading sign that Parse accepts,
\* Parse("-" + s) is accepted and equals Negate(Parse(s)); and Parse("-P-1Y")
\* equals Parse("P1Y").
C18_MinusNegates ==
    /\ Parsed /\ err = NoError /\ txt # <<>> /\ txt[1] \notin {"-", "+"}
        => /\ Parse(Minus(txt)).err = NoError
           /\ Parse(Minus(txt)).period = Negate(r)
    /\ Parse(T_NegNegP1Y) = Parse(T_P1Y)

\* a text whose first field is negative was parsed into a negative period,
\* and with a minus sign before it parses into the positive one
C18_Witness ==
    /\ op = "Parse"
    /\ err = NoError
    /\ txt[1] = "P"
    /\ r.neg
    /\ ~Parse(Minus(txt)).period.neg
    /\ Parse(Minus(txt)).period = Negate(r)

T_P0D == <<"P", "0", "D">>

\* C19: each of P0Y, P0M, P0W, P0D, PT0H, PT0M and PT0S, with or without a
\* leading '+' or '-', parses without error into the one canonical zero
\* period, which is formatted as P0D.
C19_ZeroTextsParseToZero ==
    /\ \A s \in SignedZeroTexts :
          Parse(s) = [err |-> NoError, period |-> Zero]
    /\ Parsed /\ txt \in SignedZeroTexts
          => err = NoError /\ r = Zero /\ ~r.neg /\ String(r) = T_P0D

\* a zero of seconds with a minus sign was parsed into the zero period
C19_Witness ==
    /\ op = "Parse"
    /\ txt = <<"-", "P", "T", "0", "S">>
    /\ err = NoError
    /\ r = Zero
    /\ String(r) = T_P0D

\* C20: Normalise(p, precise) and Simplify(p, precise) of a canonical period
\* p are canonical, in both modes.
C20_CanonicalKept ==
    op \in {"Normalise", "Simplify"} /\ Canonical(a) => Canonical(r)

\* the fields of the period, most significant first
FieldsOf(period) == [i \in 1..7 |-> period[Fields[i]]]

\* C21: in every period that Parse returns without an error at most one
\* field has a non-zero fractional part, and no non-zero field is less
\* significant than it.
C21_ParsedFractionLast ==
    Parsed /\ err = NoError => ~FractionMisplaced(FieldsOf(r))

\* the fields as the text writes them, after the sign and the 'P': the
\* characters of each number and the letter that follows it
RECURSIVE TokensFrom(_, _, _)
TokensFrom(s, num, acc) ==
    IF s = <<>> THEN acc
    ELSE IF IsDigit(Head(s)) \/ Head(s) \in {".", ",", "-"}
    THEN TokensFrom(Tail(s), Append(num, Head(s)), acc)
    ELSE IF Head(s) = "T" /\ num = <<>> THEN TokensFrom(Tail(s), <<>>, acc)
    ELSE TokensFrom(Tail(s), <<>>, Append(acc, [num |-> num, des |-> Head(s)]))

Tokens(s) ==
    IF Unsigned(s) # <<>> /\ Head(Unsigned(s)) = "P"
    THEN TokensFrom(Tail(Unsigned(s)), <<>>, <<>>)
    ELSE <<>>

\* the number is written with a decimal point or comma
HasPoint(num) == \E k \in 1..Len(num) : num[k] \in {".", ","}

\* the number has a digit other than zero
NonZeroValue(num) == \E k \in 1..Len(num) : IsDigit(num[k]) /\ num[k] # "0"

\* the number has a digit other than zero after its point
NonZeroFraction(num) ==
    \E k \in 1..Len(num), m \in 1..Len(num) :
        k < m /\ num[k] \in {".", ","} /\ IsDigit(num[m]) /\ num[m] # "0"

\* token j has a value and comes after a token written with a point
AfterPoint(toks, j) ==
    NonZeroValue(toks[j].num) /\ \E i \in 1..(j - 1) : HasPoint(toks[i].num)

\* the first token that has a value and comes after a token with a point,
\* and the last token with a point before it
LaterField(toks) == CHOOSE j \in 1..Len(toks) :
    AfterPoint(toks, j) /\ \A k \in 1..(j - 1) : ~AfterPoint(toks, k)

PointField(toks, j) == CHOOSE i \in 1..(j - 1) :
    HasPoint(toks[i].num) /\ \A k \in (i + 1)..(j - 1) : ~HasPoint(toks[k].num)

FractionError == "only the last field can have a fraction"

DateFields == {Year, Month, Week, Day}

\* the field at the start of what remains of the text
NextField == parseNextField(st.remaining, txt, st.isHMS)

\* a turn of the loop is made, on a field or on 'T'
FieldTurn == op = "parsing" /\ op' = "parsing" /\ st' # st /\ st.remaining[1] # "T"

MarkerTurn == op = "parsing" /\ op' = "parsing" /\ st' # st /\ st.remaining[1] = "T"

\* date designators are Armed only before 'T', time designators only after
ArmedBySide ==
    op = "parsing" =>
        \A d \in FieldSet : st.state[d] = Armed => (d \in DateFields <=> ~st.isHMS)

\* a field is accepted only when its designator is Armed, which is then Set;
\* a field whose designator is not Armed is rejected, one already Set as a
\* repetition
FieldRules ==
    FieldTurn =>
        /\ st'.err = NoError
            => st.state[NextField.des] = Armed /\ st'.state[NextField.des] = Set
        /\ NextField.err = NoError /\ st.state[NextField.des] # Armed
            => st'.err # NoError
        /\ NextField.err = NoError /\ st.state[NextField.des] = Set
            => st'.err.kind \in {"designator cannot occur more than once", FractionError}

\* the first 'T' is crossed, a second one is rejected
MarkerRules ==
    MarkerTurn =>
        IF st.isHMS THEN st'.err.kind = "'T' designator cannot occur more than once"
        ELSE st'.isHMS /\ st'.err = NoError

\* once 'T' is crossed it stays crossed, and no date field changes after it
AfterMarker ==
    op = "parsing" /\ op' = "parsing" /\ st.isHMS
        => /\ st'.isHMS
           /\ \A d \in DateFields : st'.p[d] = st.p[d] /\ st'.state[d] = Unready

\* what the turns return is what Parse returns
TurnsAgree ==
    op = "Parse" => r = Parse(txt).period /\ err = Parse(txt).err

\* C23: during Parse a field is accepted only while its designator is Armed:
\* Y, M, W and D are Armed only before 'T', H, M and S only after it; an
\* accepted field leaves its designator Set, so that a second occurrence is
\* rejected; a second 'T' is rejected; and after 'T' no date field is
\* accepted again.
C23_AcceptedOnlyWhileArmed ==
    /\ [](ArmedBySide /\ TurnsAgree)
    /\ [][FieldRules /\ MarkerRules /\ AfterMarker]_vars

\* a date field was accepted before 'T' and a time field after it
C23_Witness ==
    /\ op = "parsing"
    /\ st.isHMS
    /\ st.err = NoError
    /\ st.state[Hour] = Set
    /\ st.state[Day] = Unready
    /\ st.p.days.coef # 0
    /\ st.p.hours.coef # 0

\* the months of the period, years included, times 10^scale
MonthsOf(period, scale) == Totals(period, scale)[1]

\* the seconds of the period, weeks and days included at 86400 seconds a day,
\* times 10^scale
SecondsOf(period, scale) ==
    BigAdd(BigMulInt(Totals(period, scale)[2], secondsPerDay), Totals(period, scale)[3])

\* C24: Normalise never changes the quantity: in both modes 12*years + months
\* is the same before and after, and so is 604800*weeks + 86400*days +
\* 3600*hours + 60*minutes + seconds, to the last digit.
C24_NormaliseKeepsQuantity ==
    op = "Normalise"
        => /\ MonthsOf(r, MaxScale(a, r)) = MonthsOf(a, MaxScale(a, r))
           /\ SecondsOf(r, MaxScale(a, r)) = SecondsOf(a, MaxScale(a, r))

\* months were carried into years, in a period that has a fraction
C24_Witness ==
    /\ op = "Normalise"
    /\ r.years # a.years
    /\ \E f \in FieldSet : a[f].scale > 0
    /\ MonthsOf(r, MaxScale(a, r)) = MonthsOf(a, MaxScale(a, r))
    /\ ~BigIsZero(MonthsOf(a, MaxScale(a, r)))

\* the sums of the fields that can be added, zero in the other fields
KeptSums(p, q) ==
    [f \in FieldSet |->
        IF DecAdd(applySign(p, p[f]), applySign(q, q[f])).ok
        THEN DecAdd(applySign(p, p[f]), applySign(q, q[f])).val
        ELSE DecZero] @@ [neg |-> FALSE]

\* the field is not changed by normalising the period
AtRest(period, f) == Normalise(period, TRUE)[f] = period[f]

\* C25: when Add or Mul reports an overflow for some fields, every other
\* field of the result still holds its correct value: after Add the fields
\* that did not overflow amount to their exact sums, normalised and with the
\* canonical sign, and a field that normalising leaves at rest holds its exact
\* sum; after Mul every field that did not overflow holds its exact product.
C25_OtherFieldsCorrect ==
    /\ op = "Add" /\ ovf # {}
        => /\ Totals(r, MaxScale(a, r)) = Totals(KeptSums(a, b), MaxScale(a, r))
           /\ \A f \in FieldSet \ ovf :
                 AtRest(KeptSums(a, b), f) => Effective(r, f) = DecTrim(KeptSums(a, b)[f], 0)
    /\ op = "Mul" /\ ovf # {}
        => \A f \in FieldSet \ ovf :
              Effective(r, f) = DecTrim(DecMul(applySign(a, a[f]), arg).val, 0)

\* a multiplication overflowed in some field and another field holds its
\* product
C25_Witness ==
    /\ op = "Mul"
    /\ ovf # {}
    /\ \E f \in FieldSet \ ovf : a[f].coef # 0 /\ r[f].coef # 0 /\ r[f].coef # a[f].coef

\* the operation of the state applied to the period
Again(period) ==
    CASE op = "Normalise" -> Normalise(period, arg)
      [] op = "Simplify" -> Simplify(period, arg)
      [] op = "NormaliseDaysToYears" -> NormaliseDaysToYears(period)

\* C26: normalising commutes with negation: for every non-zero period p and
\* both modes, op(Negate(p)) = Negate(op(p)) for op one of Normalise,
\* Simplify and NormaliseDaysToYears.
C26_CommutesWithNegate ==
    op \in {"Normalise", "Simplify", "NormaliseDaysToYears"} /\ ~IsZero(a)
        => Again(Negate(a)) = Negate(r)

\* what one of the field amounts to in nanoseconds
TimeUnit(f) == CASE f = Hour -> TimeHour [] f = Minute -> TimeMinute [] f = Second -> TimeSecond

\* a non-zero hours, minutes or seconds field contributes no nanoseconds
TruncatedToZero(period) ==
    \E f \in {Hour, Minute, Second} :
        period[f].coef # 0 /\ BigIsZero(fieldDuration(period[f], TimeUnit(f)))

\* C27: Duration reports precise = false whenever a non-zero hours, minutes
\* or seconds field is too small for whole nanoseconds, its contribution being
\* truncated to zero: PT0.0000000001S yields (0, false).
C27_TruncationIsImprecise ==
    op = "Duration" /\ TruncatedToZero(a) => ~dur.precise

\* the weeks and days of the period in days, times 10^scale
DaysOf(period, scale) == Totals(period, scale)[2]

\* the years, weeks and days of the period at 365.2425 days a year, in
\* ten-thousandths of a day, times 10^scale
YearDaysOf(period, scale) ==
    BigAdd(BigMulInt(BigOfField(period, Year, scale), 3652425),
           BigMulInt(DaysOf(period, scale), 10000))

\* x < y
BigLess(x, y) == BigIsNeg(BigAdd(x, BigNeg(y)))

\* days + 7*weeks is below 366
Below366(period) ==
    BigLess(DaysOf(period, MaxScale(period, period)),
            BigShift(BigOfNat(366), MaxScale(period, period)))

\* one of the steps overflows: seven times the weeks, the days added to
\* that, the division by the days of a year, or the years added to the years
StepOverflows(period) ==
    \/ ~DecMul(period.weeks, seven).ok
    \/ ~DecAdd(DecMul(period.weeks, seven).val, period.days).ok
    \/ ~DecQuoRem(DecAdd(DecMul(period.weeks, seven).val, period.days).val, daysPerYear).ok
    \/ ~DecAdd(period.years,
               DecQuoRem(DecAdd(DecMul(period.weeks, seven).val, period.days).val,
                         daysPerYear).q).ok

\* from p to q whole years were taken out of the days and weeks, less than a
\* year of them is left, and nothing else changed
YearsMoved(p, q, scale) ==
    /\ YearDaysOf(q, scale) = YearDaysOf(p, scale)
    /\ q.years.scale = p.years.scale
    /\ q.years # p.years
    /\ ~BigIsNeg(DaysOf(q, scale))
    /\ BigLess(BigMulInt(DaysOf(q, scale), 10000), BigShift(BigOfNat(3652425), scale))
    /\ \A f \in {Month, Hour, Minute, Second} : q[f] = p[f]

\* C28: NormaliseDaysToYears returns its input unchanged when days + 7*weeks
\* is below 366 or when an arithmetic step overflows; otherwise it moves the
\* whole years of 365.2425 days that days + 7*weeks holds into years and
\* leaves the exact remainder in weeks and days, so that 365.2425*years +
\* 7*weeks + days is the same before and after, as is every other field.  The
\* fields of a negative period are taken as they are stored.
C28_DaysToYears ==
    op = "NormaliseDaysToYears"
        => IF Below366(Abs(a)) \/ StepOverflows(Abs(a))
           THEN r = a
           ELSE r.neg = a.neg /\ YearsMoved(Abs(a), Abs(r), MaxScale(a, r))

\* the steps of Simplify in their order: the larger field, the smaller
\* field, and how many of the smaller make one of the larger
SimplifySteps ==
    << <<Year, Month, twelve>>, <<Week, Day, seven>>, <<Day, Hour, twentyFour>>,
       <<Hour, Minute, sixty>>, <<Minute, Second, sixty>> >>

\* the period after the first k steps of Simplify
RECURSIVE Simplified(_, _, _)
Simplified(p, precise, k) ==
    IF k = 0 THEN p
    ELSE IF LeftOut(k, precise) THEN Simplified(p, precise, k - 1)
    ELSE rippleRight(Simplified(p, precise, k - 1),
                     SimplifySteps[k][1], SimplifySteps[k][2], SimplifySteps[k][3])

\* the larger field of the pair was emptied in the step from p to q
Folded(p, q, larger) == q[larger] # p[larger] /\ DecIsZero(q[larger])

\* from p to q one step of Simplify was made: a simple pair is as it was, a
\* folded pair has the value of smaller + larger*nd in its smaller field,
\* and no other field has changed
FoldMade(p, q, larger, smaller, extra) ==
    /\ \A f \in FieldSet \ {larger, smaller} : q[f] = p[f]
    /\ q.neg = p.neg
    /\ isSimple(p[larger], p[smaller]) => q = p
    /\ Folded(p, q, larger)
        => /\ ~isSimple(p[larger], p[smaller])
           /\ extra.ok
           /\ DecAdd(p[smaller], extra.val).ok
           /\ DecTrim(q[smaller], 0) = DecTrim(DecAdd(p[smaller], extra.val).val, 0)

FoldMadeAt(p, q, step) == FoldMade(p, q, step[1], step[2], DecMul(p[step[1]], step[3]))

T_P2Y == <<"P", "2", "Y">>
T_P2Y1M == <<"P", "2", "Y", "1", "M">>
T_P25M == <<"P", "2", "5", "M">>

\* C29: Simplify folds a larger field into its smaller neighbour only when
\* the pair is not simple already: a pair with a whole number in the larger
\* field and nothing in the smaller is left as it is (P2Y stays P2Y), and
\* whenever a pair is folded the larger field becomes zero and the smaller
\* becomes smaller + larger*factor (P2Y1M becomes P25M).
C29_FoldsUnlessSimple ==
    op = "Simplify"
        => /\ r = Simplified(a, arg, 5)
           /\ \A k \in 1..5 :
                 \/ LeftOut(k, arg)
                 \/ FoldMadeAt(Simplified(a, arg, k - 1), Simplified(a, arg, k),
                               SimplifySteps[k])
           /\ a = Parse(T_P2Y).period => r = a
           /\ a = Parse(T_P2Y1M).period => r = Parse(T_P25M).period

\* P2Y1M was simplified to P25M
C29_Witness ==
    /\ op = "Simplify"
    /\ a = Parse(T_P2Y1M).period
    /\ DecIsZero(r.years)
    /\ r.months = DecNew(25, 0)

\* C30: Normalise is idempotent: for every period p and each mode m,
\* Normalise(Normalise(p, m), m) = Normalise(p, m).
C30_NormaliseIdempotent ==
    op = "Normalise" => Normalise(r, arg) = r

====
